---- MODULE Spec2Model ----
(***************************************************************************)
(* State-machine model of src/pages/PhotoEditor.tsx: the React component   *)
(* PhotoEditor, its hook state, its refs, its event handlers and the       *)
(* asynchronous callbacks they register (FileReader.onload, Image.onload,  *)
(* setTimeout).  One action per handler or callback; every action ends     *)
(* with the commit of the re-render, which attaches or detaches canvasRef. *)
(***************************************************************************)
EXTENDS Integers, Sequences, FiniteSets, TLC

VARIABLES
    selectedImage,   \* useState l.14: NoImage (null) or the data URL of a file
    isDragging,      \* useState l.15
    isProcessing,    \* useState l.16
    isEnhanced,      \* useState l.17
    sliderPosition,  \* useState l.18
    settings,        \* useState l.19-23
    canvasRef,       \* useRef l.26: Null, or Canvas while <canvas> is mounted
    canvas,          \* Blank, or <<the drawing>> on the mounted canvas element
    reading,         \* FileReaders whose onload is pending, in submission order
    decoding,        \* Images (l.70) whose onload is pending
    timers,          \* number of pending setTimeout callbacks (l.89)
    lastOp,          \* the handler or callback that ran last, and its outcome
    lastSubmitted,   \* the file most recently handed to loadImage (l.44, l.51)
    tonalBitmap,     \* the pixels of the canvas after drawImage (l.81), read at l.84
    finalBitmap,     \* the pixels of the canvas after l.83-87
    stage            \* where the pixel pipeline of l.80-87 stands

vars == <<selectedImage, isDragging, isProcessing, isEnhanced, sliderPosition,
          settings, canvasRef, canvas, reading, decoding, timers, lastOp,
          lastSubmitted, tonalBitmap, finalBitmap, stage>>

\* the variables of the pixel pipeline
pixels == <<tonalBitmap, finalBitmap, stage>>

----------------------------------------------------------------------------
(* Bounds of the model *)

MaxReads == 2

(* Program constants *)

BrightnessMin == 80
BrightnessMax == 140
ContrastMin == 80
ContrastMax == 160
SharpnessMin == 100
SharpnessMax == 200
SliderStart == 50

NoImage == <<>>
Null == "null"
Canvas == "canvas"
Blank == <<>>
NoFile == "nofile"

\* an ImageData: width, height and the RGBA bytes, indexed from 0
ImageData(w, h, d) == [width |-> w, height |-> h, data |-> d]
NoBitmap == ImageData(0, 0, <<>>)

(* The files a user can submit: name |-> MIME type, as a string of         *)
(* characters, and whether the bytes decode as an image.                   *)
Files == {"a.png", "b.png", "corrupt.png", "notes.txt"}

FileType(f) ==
    IF f = "notes.txt"
    THEN <<"t", "e", "x", "t", "/", "p", "l", "a", "i", "n">>
    ELSE <<"i", "m", "a", "g", "e", "/", "p", "n", "g">>

Decodable(f) == f \in {"a.png", "b.png"}

ImagePrefix == <<"i", "m", "a", "g", "e", "/">>

\* String.prototype.startsWith
StartsWith(s, p) == Len(s) >= Len(p) /\ SubSeq(s, 1, Len(p)) = p

\* FileReader.readAsDataURL: the result names the file's bytes, whatever they are
DataURL(f) == <<"data", f>>

FileOf(url) == url[2]

\* the values a slider gesture may ask for, in and out of the three domains
Requested == {50, 110, 200}

Min(a, b) == IF a < b THEN a ELSE b
Max(a, b) == IF a > b THEN a ELSE b

\* the Slider component of components/ui/slider, given min and max
SliderValue(req, lo, hi) == Max(lo, Min(hi, req))

DefaultSettings == [brightness |-> 110, contrast |-> 120, sharpness |-> 130]

Op(name, file, req, result) ==
    [op |-> name, file |-> file, req |-> req, result |-> result]

----------------------------------------------------------------------------
(* Rendering, l.148-396 *)

\* <canvas ref={canvasRef}> is rendered only in the isEnhanced branch of the
\* selectedImage branch (l.173, l.224, l.238-241); React sets the ref on mount
\* and clears it on unmount.
Mounted(sel, enh) == IF sel # NoImage /\ enh THEN Canvas ELSE Null

\* the upload card and the file input (l.173-220)
UploadShown == selectedImage = NoImage
\* the close button (l.159-168)
CloseShown == selectedImage # NoImage
\* the settings sliders (l.221, l.291-350)
SlidersShown == selectedImage # NoImage
\* the enhance button (l.353-357): rendered when not enhanced, disabled while processing
EnhanceClickable == selectedImage # NoImage /\ ~isEnhanced /\ ~isProcessing
\* the download and change-settings buttons (l.371-388), the drag handle (l.244-247)
EnhancedShown == selectedImage # NoImage /\ isEnhanced

----------------------------------------------------------------------------
Init ==
    /\ selectedImage = NoImage
    /\ isDragging = FALSE
    /\ isProcessing = FALSE
    /\ isEnhanced = FALSE
    /\ sliderPosition = SliderStart
    /\ settings = DefaultSettings
    /\ canvasRef = Null
    /\ canvas = Blank
    /\ reading = <<>>
    /\ decoding = {}
    /\ timers = 0
    /\ lastOp = Op("init", NoFile, 0, "ok")
    /\ lastSubmitted = NoFile
    /\ tonalBitmap = NoBitmap
    /\ finalBitmap = NoBitmap
    /\ stage = "idle"

\* l.29-32
handleDragOver ==
    /\ UNCHANGED <<lastSubmitted, pixels>>
    /\ UploadShown
    /\ isDragging' = TRUE
    /\ lastOp' = Op("handleDragOver", NoFile, 0, "ok")
    /\ UNCHANGED <<selectedImage, isProcessing, isEnhanced, sliderPosition,
                   settings, canvasRef, canvas, reading, decoding, timers>>

\* l.34-36
handleDragLeave ==
    /\ UNCHANGED <<lastSubmitted, pixels>>
    /\ UploadShown
    /\ isDragging' = FALSE
    /\ lastOp' = Op("handleDragLeave", NoFile, 0, "ok")
    /\ UNCHANGED <<selectedImage, isProcessing, isEnhanced, sliderPosition,
                   settings, canvasRef, canvas, reading, decoding, timers>>

\* l.55-63: a FileReader is created and started; its onload runs later
loadImage(f) == Append(reading, f)

\* l.38-46; f = NoFile is a drop that carries no file
handleDrop(f) ==
    /\ UNCHANGED pixels
    /\ UploadShown
    /\ Len(reading) < MaxReads
    /\ isDragging' = FALSE
    /\ IF f # NoFile /\ StartsWith(FileType(f), ImagePrefix)
       THEN /\ reading' = loadImage(f)
            /\ lastSubmitted' = f
            /\ lastOp' = Op("handleDrop", f, 0, "reading")
       ELSE /\ reading' = reading
            /\ lastSubmitted' = lastSubmitted
            /\ lastOp' = Op("handleDrop", f, 0, "ignored")
    /\ UNCHANGED <<selectedImage, isProcessing, isEnhanced, sliderPosition,
                   settings, canvasRef, canvas, decoding, timers>>

\* l.48-53; f = NoFile is a cancelled dialog
handleFileSelect(f) ==
    /\ UNCHANGED pixels
    /\ UploadShown
    /\ Len(reading) < MaxReads
    /\ IF f # NoFile
       THEN /\ reading' = loadImage(f)
            /\ lastSubmitted' = f
            /\ lastOp' = Op("handleFileSelect", f, 0, "reading")
       ELSE /\ reading' = reading
            /\ lastSubmitted' = lastSubmitted
            /\ lastOp' = Op("handleFileSelect", f, 0, "ignored")
    /\ UNCHANGED <<selectedImage, isDragging, isProcessing, isEnhanced,
                   sliderPosition, settings, canvasRef, canvas, decoding, timers>>

\* the sequence s without its i-th element
Without(s, i) == SubSeq(s, 1, i - 1) \o SubSeq(s, i + 1, Len(s))

\* a reader.onload that keeps the image of the session once one is loaded
readerOnload_keepsLoaded(i) ==
    /\ UNCHANGED <<lastSubmitted, pixels>>
    /\ i \in 1..Len(reading)
    /\ selectedImage' = IF selectedImage = NoImage
                        THEN DataURL(reading[i]) ELSE selectedImage
    /\ isEnhanced' = FALSE
    /\ sliderPosition' = SliderStart
    /\ reading' = Without(reading, i)
    /\ canvasRef' = Mounted(selectedImage', isEnhanced')
    /\ canvas' = IF canvasRef' = Null THEN Blank ELSE canvas
    /\ lastOp' = Op("readerOnload", reading[i], 0,
                    IF selectedImage = NoImage \/ selectedImage = DataURL(reading[i])
                    THEN "loaded" ELSE "replaced")
    /\ UNCHANGED <<isDragging, isProcessing, settings, decoding, timers>>

\* l.57-61: reader.onload of the i-th pending read; reads complete in any order
readerOnload(i) ==
    /\ UNCHANGED <<lastSubmitted, pixels>>
    /\ i \in 1..Len(reading)
    /\ selectedImage' = DataURL(reading[i])
    /\ isEnhanced' = FALSE
    /\ sliderPosition' = SliderStart
    /\ reading' = Without(reading, i)
    /\ canvasRef' = Mounted(selectedImage', isEnhanced')
    /\ canvas' = IF canvasRef' = Null THEN Blank ELSE canvas
    /\ lastOp' = Op("readerOnload", reading[i], 0,
                    IF selectedImage = NoImage \/ selectedImage = DataURL(reading[i])
                    THEN "loaded" ELSE "replaced")
    /\ UNCHANGED <<isDragging, isProcessing, settings, decoding, timers>>

\* the drawing left on the canvas by l.77-87: the source it was decoded from
\* and the settings the closure captured
PipelineResult(run) == [of |-> run.src, with |-> run.settings]

\* l.65-70, l.94: the click handler of the enhance button
applyEnhancements ==
    /\ UNCHANGED <<lastSubmitted, pixels>>
    /\ EnhanceClickable
    /\ IF selectedImage = NoImage \/ canvasRef = Null
       THEN /\ lastOp' = Op("applyEnhancements", NoFile, 0, "return")
            /\ UNCHANGED <<isProcessing, decoding>>
       ELSE /\ isProcessing' = TRUE
            /\ decoding' = decoding \cup {[src |-> selectedImage, settings |-> settings]}
            /\ lastOp' = Op("applyEnhancements", NoFile, 0, "started")
    /\ UNCHANGED <<selectedImage, isDragging, isEnhanced, sliderPosition,
                   settings, canvasRef, canvas, reading, timers>>

\* l.71-93: img.onload of a pending decode; an undecodable source never fires it,
\* and canvasRef.current! (l.74-75) throws when the canvas is not mounted
imgOnload(run) ==
    /\ UNCHANGED <<lastSubmitted, pixels>>
    /\ run \in decoding
    /\ Decodable(FileOf(run.src))
    /\ decoding' = decoding \ {run}
    /\ IF canvasRef = Null
       THEN /\ lastOp' = Op("imgOnload", FileOf(run.src), 0, "TypeError")
            /\ UNCHANGED <<canvas, timers>>
       ELSE /\ canvas' = <<PipelineResult(run)>>
            /\ timers' = timers + 1
            /\ lastOp' = Op("imgOnload", FileOf(run.src), 0, "ok")
    /\ UNCHANGED <<selectedImage, isDragging, isProcessing, isEnhanced,
                   sliderPosition, settings, canvasRef, reading>>

\* l.89-92: the delayed completion
timeoutFire ==
    /\ UNCHANGED <<lastSubmitted, pixels>>
    /\ timers > 0
    /\ timers' = timers - 1
    /\ isProcessing' = FALSE
    /\ isEnhanced' = TRUE
    /\ canvasRef' = Mounted(selectedImage, isEnhanced')
    /\ canvas' = IF canvasRef' = Null THEN Blank ELSE canvas
    /\ lastOp' = Op("timeoutFire", NoFile, 0, "ok")
    /\ UNCHANGED <<selectedImage, isDragging, sliderPosition, settings,
                   reading, decoding>>

\* l.130-137: the export operation, called in any state; its button is
\* rendered only in the enhanced view (l.371-379)
downloadImage ==
    /\ UNCHANGED <<lastSubmitted, pixels>>
    /\ IF canvasRef = Null
       THEN lastOp' = Op("downloadImage", NoFile, 0, "return")
       ELSE lastOp' = Op("downloadImage", NoFile, 0, "saved")
    /\ UNCHANGED <<selectedImage, isDragging, isProcessing, isEnhanced,
                   sliderPosition, settings, canvasRef, canvas, reading,
                   decoding, timers>>

\* resetImage that also restores the default settings
resetImage_defaultSettings ==
    /\ UNCHANGED <<lastSubmitted, pixels>>
    /\ CloseShown
    /\ selectedImage' = NoImage
    /\ isEnhanced' = FALSE
    /\ sliderPosition' = SliderStart
    /\ settings' = DefaultSettings
    /\ canvasRef' = Mounted(selectedImage', isEnhanced')
    /\ canvas' = IF canvasRef' = Null THEN Blank ELSE canvas
    /\ lastOp' = Op("resetImage", NoFile, 0, "ok")
    /\ UNCHANGED <<isDragging, isProcessing, reading, decoding, timers>>

\* resetImage without l.140: the source image is kept
resetImage_keepsImage ==
    /\ UNCHANGED <<lastSubmitted, pixels>>
    /\ CloseShown
    /\ isEnhanced' = FALSE
    /\ sliderPosition' = SliderStart
    /\ canvasRef' = Mounted(selectedImage, isEnhanced')
    /\ canvas' = IF canvasRef' = Null THEN Blank ELSE canvas
    /\ lastOp' = Op("resetImage", NoFile, 0, "ok")
    /\ UNCHANGED <<selectedImage, isDragging, isProcessing, settings, reading,
                   decoding, timers>>

\* l.139-146: the close button.  fileInputRef.current is null while the close
\* button is shown (the input is rendered in the other branch, l.213-219), so
\* l.143-145 do nothing.
resetImage ==
    /\ UNCHANGED <<lastSubmitted, pixels>>
    /\ CloseShown
    /\ selectedImage' = NoImage
    /\ isEnhanced' = FALSE
    /\ sliderPosition' = SliderStart
    /\ canvasRef' = Mounted(selectedImage', isEnhanced')
    /\ canvas' = IF canvasRef' = Null THEN Blank ELSE canvas
    /\ lastOp' = Op("resetImage", NoFile, 0, "ok")
    /\ UNCHANGED <<isDragging, isProcessing, settings, reading, decoding, timers>>

\* l.380-382: the change-settings button
returnToSettings ==
    /\ UNCHANGED <<lastSubmitted, pixels>>
    /\ EnhancedShown
    /\ isEnhanced' = FALSE
    /\ canvasRef' = Mounted(selectedImage, isEnhanced')
    /\ canvas' = IF canvasRef' = Null THEN Blank ELSE canvas
    /\ lastOp' = Op("returnToSettings", NoFile, 0, "ok")
    /\ UNCHANGED <<selectedImage, isDragging, isProcessing, sliderPosition,
                   settings, reading, decoding, timers>>

\* the brightness slider given the bounds of the contrast slider (max={160})
setBrightness_contrastBounds(req) ==
    /\ UNCHANGED <<lastSubmitted, pixels>>
    /\ SlidersShown
    /\ settings' = [settings EXCEPT
                      !.brightness = SliderValue(req, ContrastMin, ContrastMax)]
    /\ lastOp' = Op("setBrightness", NoFile, req, "ok")
    /\ UNCHANGED <<selectedImage, isDragging, isProcessing, isEnhanced,
                   sliderPosition, canvasRef, canvas, reading, decoding, timers>>

\* l.305-311
setBrightness(req) ==
    /\ UNCHANGED <<lastSubmitted, pixels>>
    /\ SlidersShown
    /\ settings' = [settings EXCEPT
                      !.brightness = SliderValue(req, BrightnessMin, BrightnessMax)]
    /\ lastOp' = Op("setBrightness", NoFile, req, "ok")
    /\ UNCHANGED <<selectedImage, isDragging, isProcessing, isEnhanced,
                   sliderPosition, canvasRef, canvas, reading, decoding, timers>>

\* l.323-329
setContrast(req) ==
    /\ UNCHANGED <<lastSubmitted, pixels>>
    /\ SlidersShown
    /\ settings' = [settings EXCEPT
                      !.contrast = SliderValue(req, ContrastMin, ContrastMax)]
    /\ lastOp' = Op("setContrast", NoFile, req, "ok")
    /\ UNCHANGED <<selectedImage, isDragging, isProcessing, isEnhanced,
                   sliderPosition, canvasRef, canvas, reading, decoding, timers>>

\* a sharpness slider that re-runs the enhancement on every change
setSharpness_autoEnhance(req) ==
    /\ UNCHANGED <<lastSubmitted, pixels>>
    /\ SlidersShown
    /\ settings' = [settings EXCEPT
                      !.sharpness = SliderValue(req, SharpnessMin, SharpnessMax)]
    /\ isProcessing' = TRUE
    /\ decoding' = decoding \cup {[src |-> selectedImage, settings |-> settings']}
    /\ lastOp' = Op("setSharpness", NoFile, req, "ok")
    /\ UNCHANGED <<selectedImage, isDragging, isEnhanced, sliderPosition,
                   canvasRef, canvas, reading, timers>>

\* l.341-347
setSharpness(req) ==
    /\ UNCHANGED <<lastSubmitted, pixels>>
    /\ SlidersShown
    /\ settings' = [settings EXCEPT
                      !.sharpness = SliderValue(req, SharpnessMin, SharpnessMax)]
    /\ lastOp' = Op("setSharpness", NoFile, req, "ok")
    /\ UNCHANGED <<selectedImage, isDragging, isProcessing, isEnhanced,
                   sliderPosition, canvasRef, canvas, reading, decoding, timers>>

----------------------------------------------------------------------------
(* The pixel pipeline of l.80-87 and applySharpen, l.97-128.  The amount   *)
(* (settings.sharpness - 100) / 100 is carried in hundredths, and so are   *)
(* the kernel and the sums, so that all arithmetic is on integers.         *)

\* the largest value of a Uint8ClampedArray element (l.121)
ByteMax == 255

\* the kernel with a centre weight of 1 + 3 * amount
kernel_weakCentre(amount) ==
    <<0, -amount, 0,
      -amount, 100 + 3 * amount, -amount,
      0, -amount, 0>>

\* l.103-107, in hundredths
kernel(amount) ==
    <<0, -amount, 0,
      -amount, 100 + 4 * amount, -amount,
      0, -amount, 0>>

\* l.112-119: the sum over the 3x3 neighbourhood of channel c of pixel (x, y)
KernelSum(data, width, x, y, c, amount) ==
    LET term(ky, kx) ==
            LET idx == ((y + ky) * width + (x + kx)) * 4 + c
                kidx == (ky + 1) * 3 + (kx + 1)
            IN  data[idx] * kernel(amount)[kidx + 1]
    IN  term(-1, -1) + term(-1, 0) + term(-1, 1)
      + term(0, -1) + term(0, 0) + term(0, 1)
      + term(1, -1) + term(1, 0) + term(1, 1)

\* the amount is a multiple of 1/4: the double holds it exactly and so are
\* all products and sums of l.117
ExactAmount(amount) == amount % 25 = 0

\* l.121: Math.max(0, Math.min(255, sum)) stored into a Uint8ClampedArray,
\* which rounds to the nearest integer, a half to the even one.  With an
\* amount the double does not hold exactly, a sum whose exact value is a half
\* is computed a little below or a little above it: tieUp is the side.
StoreClamped(sum, amount, tieUp) ==
    LET clamped == Max(0, Min(ByteMax * 100, sum))
        q == clamped \div 100
        r == clamped % 100
    IN  IF r < 50 THEN q
        ELSE IF r > 50 THEN q + 1
        ELSE IF ExactAmount(amount) THEN (IF q % 2 = 0 THEN q ELSE q + 1)
        ELSE IF tieUp THEN q + 1 ELSE q

\* the pixels the loops of l.109-110 visit
Interior(width, height, x, y) ==
    x >= 1 /\ x < width - 1 /\ y >= 1 /\ y < height - 1

\* applySharpen that does not write the alpha of l.123
applySharpen_noAlpha(imageData, amount, tieUp) ==
    LET width == imageData.width
        height == imageData.height
    IN  ImageData(width, height,
          [i \in 0..(width * height * 4 - 1) |->
             LET x == (i \div 4) % width
                 y == (i \div 4) \div width
                 c == i % 4
             IN  IF Interior(width, height, x, y) /\ c < 3
                 THEN StoreClamped(KernelSum(imageData.data, width, x, y, c, amount),
                                   amount, tieUp)
                 ELSE 0])

\* applySharpen whose output starts as a copy of the input (l.101)
applySharpen_copiesInput(imageData, amount, tieUp) ==
    LET width == imageData.width
        height == imageData.height
    IN  ImageData(width, height,
          [i \in 0..(width * height * 4 - 1) |->
             LET x == (i \div 4) % width
                 y == (i \div 4) \div width
                 c == i % 4
             IN  IF Interior(width, height, x, y)
                 THEN IF c = 3 THEN ByteMax
                      ELSE StoreClamped(KernelSum(imageData.data, width, x, y, c, amount),
                                        amount, tieUp)
                 ELSE imageData.data[i]])

\* l.97-128: new ImageData(width, height) is all zeros (l.101); the loops write
\* the three colour channels and the alpha of every interior pixel
applySharpen(imageData, amount, tieUp) ==
    LET width == imageData.width
        height == imageData.height
    IN  ImageData(width, height,
          [i \in 0..(width * height * 4 - 1) |->
             LET x == (i \div 4) % width
                 y == (i \div 4) \div width
                 c == i % 4
             IN  IF Interior(width, height, x, y)
                 THEN IF c = 3 THEN ByteMax
                      ELSE StoreClamped(KernelSum(imageData.data, width, x, y, c, amount),
                                        amount, tieUp)
                 ELSE 0])

\* l.83-87 with the test of l.83 as >=
sharpenStage_sharpensAtNeutral(tieUp) ==
    /\ stage = "drawn"
    /\ finalBitmap' = IF settings.sharpness >= 100
                      THEN applySharpen(tonalBitmap, settings.sharpness - 100, tieUp)
                      ELSE tonalBitmap
    /\ stage' = "done"
    /\ lastOp' = Op("sharpenStage", NoFile, settings.sharpness, "ok")
    /\ UNCHANGED <<selectedImage, isDragging, isProcessing, isEnhanced,
                   sliderPosition, settings, canvasRef, canvas, reading,
                   decoding, timers, lastSubmitted, tonalBitmap>>

\* l.83-87: getImageData, applySharpen and putImageData when sharpness > 100;
\* otherwise the canvas keeps the pixels drawn at l.81
sharpenStage(tieUp) ==
    /\ stage = "drawn"
    /\ finalBitmap' = IF settings.sharpness > 100
                      THEN applySharpen(tonalBitmap, settings.sharpness - 100, tieUp)
                      ELSE tonalBitmap
    /\ stage' = "done"
    /\ lastOp' = Op("sharpenStage", NoFile, settings.sharpness, "ok")
    /\ UNCHANGED <<selectedImage, isDragging, isProcessing, isEnhanced,
                   sliderPosition, settings, canvasRef, canvas, reading,
                   decoding, timers, lastSubmitted, tonalBitmap>>

(* The inputs of the pixel pipeline *)

MaxWidth == 4
MaxHeight == 4

\* sharpness values of the slider domain: neutral, the smallest step, the
\* default, an exact half and the maximum
Sharpnesses == {100, 101, 130, 150, 200}

ColorA == <<10, 200, 105, 255>>
ColorB == <<250, 0, 100, 128>>

\* a bitmap of two colours laid out by row and column sets: stripes,
\* checkerboards, single lines and flat fields
PatternBitmap(w, h, rows, cols) ==
    ImageData(w, h,
      [i \in 0..(w * h * 4 - 1) |->
         LET x == (i \div 4) % w
             y == (i \div 4) \div w
         IN  IF (y \in rows) # (x \in cols)
             THEN ColorA[(i % 4) + 1] ELSE ColorB[(i % 4) + 1]])

\* an opaque bitmap whose pixels all have the RGB value v
FlatBitmap(w, h, v) ==
    ImageData(w, h, [i \in 0..(w * h * 4 - 1) |-> IF i % 4 = 3 THEN ByteMax ELSE v])

Bitmaps ==
    UNION {{PatternBitmap(w, h, rows, cols) :
               rows \in SUBSET (0..(h - 1)), cols \in SUBSET (0..(w - 1))}
           \cup {FlatBitmap(w, h, v) : v \in 0..ByteMax} :
           w \in 1..MaxWidth, h \in 1..MaxHeight}

\* the component as constructed, with some bitmap drawn on the canvas (l.81)
\* and some sharpness set
PixelInit ==
    /\ selectedImage = NoImage
    /\ isDragging = FALSE
    /\ isProcessing = FALSE
    /\ isEnhanced = FALSE
    /\ sliderPosition = SliderStart
    /\ \E sh \in Sharpnesses : settings = [DefaultSettings EXCEPT !.sharpness = sh]
    /\ canvasRef = Null
    /\ canvas = Blank
    /\ reading = <<>>
    /\ decoding = {}
    /\ timers = 0
    /\ lastOp = Op("init", NoFile, 0, "ok")
    /\ lastSubmitted = NoFile
    /\ tonalBitmap \in Bitmaps
    /\ finalBitmap = NoBitmap
    /\ stage = "drawn"

PixelNext == \E tieUp \in BOOLEAN : sharpenStage(tieUp)

PixelSpec == PixelInit /\ [][PixelNext]_vars

\* l.251-257: the mousemove listener that l.264 adds to document while the
\* drag handle of the enhanced view is held.  e.currentTarget is then the
\* document, which has no getBoundingClientRect: l.253 throws and l.256,
\* the only other write of sliderPosition, is not reached.
handleMouseMove ==
    /\ UNCHANGED <<lastSubmitted, pixels>>
    /\ EnhancedShown
    /\ lastOp' = Op("handleMouseMove", NoFile, 0, "TypeError")
    /\ UNCHANGED <<selectedImage, isDragging, isProcessing, isEnhanced,
                   sliderPosition, settings, canvasRef, canvas, reading,
                   decoding, timers>>

\* The callbacks and the handlers that need a started pipeline run or the
\* enhanced view: Image.onload, the delayed completion, change-settings, drag.
Completion ==
    \/ \E run \in decoding : imgOnload(run)
    \/ timeoutFire
    \/ returnToSettings
    \/ handleMouseMove

\* Completion is enabled in no reachable state (CompletionDisabled below), so
\* the steps of the program are the steps of Next.
Next ==
    \/ handleDragOver
    \/ handleDragLeave
    \/ \E f \in Files \cup {NoFile} : handleDrop(f)
    \/ \E f \in Files \cup {NoFile} : handleFileSelect(f)
    \/ \E i \in 1..MaxReads : readerOnload(i)
    \/ applyEnhancements
    \/ downloadImage
    \/ resetImage
    \/ \E req \in Requested : setBrightness(req)
    \/ \E req \in Requested : setContrast(req)
    \/ \E req \in Requested : setSharpness(req)

Spec == Init /\ [][Next]_vars

----------------------------------------------------------------------------
TypeOK ==
    /\ selectedImage \in {NoImage} \cup {DataURL(f) : f \in Files}
    /\ isDragging \in BOOLEAN
    /\ isProcessing \in BOOLEAN
    /\ isEnhanced \in BOOLEAN
    /\ sliderPosition \in 0..100
    /\ canvasRef \in {Null, Canvas}
    /\ Len(reading) <= MaxReads
    /\ timers \in Nat

----------------------------------------------------------------------------
(* The orchestrator states of the specification, read off the hook state *)

Idle == selectedImage = NoImage
Processing == isProcessing
Enhanced == selectedImage # NoImage /\ isEnhanced /\ ~isProcessing
Loaded == selectedImage # NoImage /\ ~isEnhanced /\ ~isProcessing

\* a result is ready for export: the enhanced view with its canvas is shown
ResultReady == EnhancedShown /\ canvasRef = Canvas /\ canvas # Blank

\* the pipeline runs in flight: pending decodes and pending delayed completions
RunsInFlight == Cardinality(decoding) + timers

\* No pipeline run is ever started and the enhanced view is never shown:
\* canvasRef is attached only in the enhanced view (l.224-241) and
\* applyEnhancements needs it attached (l.66) to reach l.68.
CompletionDisabled ==
    /\ ~isProcessing
    /\ ~isEnhanced
    /\ canvasRef = Null
    /\ RunsInFlight = 0
    /\ ~ENABLED Completion

----------------------------------------------------------------------------
ExportFailsWhenNotReady ==
    (lastOp.op = "downloadImage" /\ ~ResultReady) =>
        lastOp.result = "PipelineNotReady"

\* C6: whenever the enhance button has been clicked on a loaded, not enhanced,
\* not processing image, the orchestrator is Processing and exactly one
\* pipeline run is in flight.
EnhanceStartsProcessing ==
    lastOp.op = "applyEnhancements" =>
        /\ isProcessing
        /\ RunsInFlight = 1

InvalidInputStaysIdle ==
    selectedImage # NoImage =>
        /\ StartsWith(FileType(FileOf(selectedImage)), ImagePrefix)
        /\ Decodable(FileOf(selectedImage))


\* C11: a step of resetImage leaves brightness, contrast and sharpness as
\* they were immediately before it.
ResetKeepsSettings ==
    [][lastOp'.op = "resetImage" => settings' = settings]_vars

\* resetImage has run while the settings differ from the defaults in all
\* three fields
ResetKeepsSettingsWitness ==
    /\ lastOp.op = "resetImage"
    /\ selectedImage = NoImage
    /\ settings.brightness = 140
    /\ settings.contrast = 80
    /\ settings.sharpness = 200

\* C12: a step that changes a setting changes neither the orchestrator state
\* (source image, isProcessing, isEnhanced) nor the result (the canvas, the
\* runs in flight); a run is only ever started by the enhance handler, with
\* the settings of that moment.
SettingsChangeKeepsResult ==
    [][/\ lastOp'.op \in {"setBrightness", "setContrast", "setSharpness"} =>
            UNCHANGED <<selectedImage, isProcessing, isEnhanced, canvasRef,
                        canvas, decoding, timers, finalBitmap>>
       /\ decoding' # decoding =>
            /\ lastOp'.op \in {"applyEnhancements", "imgOnload"}
            /\ \A run \in decoding' \ decoding : run.settings = settings
      ]_vars

\* a setting has been changed on a loaded image, which is still Loaded
SettingsChangeWitness ==
    /\ lastOp.op = "setSharpness"
    /\ lastOp.req = 200
    /\ settings.sharpness = 200
    /\ Loaded
    /\ canvas = Blank

\* C19 as stated: once every submitted read has completed the source image
\* is the file submitted last, and no completing read replaces the image of
\* a session that already has one.
LastSubmittedWins ==
    lastOp.op = "readerOnload" =>
        /\ lastOp.result # "replaced"
        /\ reading = <<>> => selectedImage = DataURL(lastSubmitted)

\* C19 as amended: every completing read makes its own file the source
\* image, whatever was submitted after it and whether or not an image was
\* already loaded, and shows it unenhanced with the ratio at 50.
LastCompletedWins ==
    lastOp.op = "readerOnload" =>
        /\ selectedImage = DataURL(lastOp.file)
        /\ ~isEnhanced
        /\ sliderPosition = SliderStart

\* two files were submitted before either read completed; the read of the
\* second completed first, and the read of the first then replaced it
LastCompletedWitness ==
    /\ lastOp.op = "readerOnload"
    /\ lastOp.result = "replaced"
    /\ reading = <<>>
    /\ lastSubmitted = "b.png"
    /\ selectedImage = DataURL("a.png")

----------------------------------------------------------------------------
(* The pixel pipeline, under PixelSpec *)

\* byte i of bitmap b belongs to pixel (PixelX, PixelY)
PixelX(b, i) == (i \div 4) % b.width
PixelY(b, i) == (i \div 4) \div b.width

Bytes(b) == 0..(b.width * b.height * 4 - 1)

\* (1+4a)*center - a*(up+down+left+right) for the byte i of b, in hundredths
CrossSum(b, i, amount) ==
    (100 + 4 * amount) * b.data[i]
      - amount * (b.data[i - 4 * b.width] + b.data[i + 4 * b.width]
                  + b.data[i - 4] + b.data[i + 4])

\* a value in hundredths clamped to [0, 255]
Clamp100(v) == IF v < 0 THEN 0 ELSE IF v > 25500 THEN 25500 ELSE v

\* the stage has just run with sharpness > 100
Sharpened == stage = "done" /\ settings.sharpness > 100

\* C13: when the stage has run with sharpness <= 100, the final bitmap is
\* the tonal-stage bitmap, byte for byte, border and alpha included.
NeutralSharpnessPassesThrough ==
    (stage = "done" /\ settings.sharpness <= 100) => finalBitmap = tonalBitmap

\* the stage has run at sharpness 100 on a 4x4 bitmap of two colours whose
\* border bytes are not zero and whose alpha is not opaque everywhere
PassThroughWitness ==
    /\ stage = "done"
    /\ settings.sharpness = 100
    /\ tonalBitmap.width = 4
    /\ tonalBitmap.height = 4
    /\ tonalBitmap.data[0] = 10
    /\ tonalBitmap.data[7] = 128
    /\ finalBitmap = tonalBitmap

\* C14 as stated: a step of the stage with sharpness > 100 on a bitmap of at
\* least 3x3 leaves the input as it was and gives a bitmap of the same
\* dimensions, all four channels 0 on the border, alpha 255 inside, and every
\* interior colour byte equal to the clamped kernel sum itself.
SharpenStoresKernelSum ==
    [][(stage = "drawn" /\ Sharpened'
        /\ tonalBitmap.width >= 3 /\ tonalBitmap.height >= 3) =>
         /\ tonalBitmap' = tonalBitmap
         /\ finalBitmap'.width = tonalBitmap.width
         /\ finalBitmap'.height = tonalBitmap.height
         /\ DOMAIN finalBitmap'.data = Bytes(tonalBitmap)
         /\ \A i \in Bytes(tonalBitmap) :
              IF ~Interior(tonalBitmap.width, tonalBitmap.height,
                           PixelX(tonalBitmap, i), PixelY(tonalBitmap, i))
              THEN finalBitmap'.data[i] = 0
              ELSE IF i % 4 = 3
              THEN finalBitmap'.data[i] = 255
              ELSE 100 * finalBitmap'.data[i] =
                      Clamp100(CrossSum(tonalBitmap, i, settings.sharpness - 100))
      ]_vars

\* C14 as amended: the same, with every interior colour byte the integer
\* nearest to the clamped kernel sum (either neighbour when the sum is
\* exactly halfway).
SharpenStoresRoundedKernelSum ==
    [][(stage = "drawn" /\ Sharpened'
        /\ tonalBitmap.width >= 3 /\ tonalBitmap.height >= 3) =>
         /\ tonalBitmap' = tonalBitmap
         /\ finalBitmap'.width = tonalBitmap.width
         /\ finalBitmap'.height = tonalBitmap.height
         /\ DOMAIN finalBitmap'.data = Bytes(tonalBitmap)
         /\ \A i \in Bytes(tonalBitmap) :
              IF ~Interior(tonalBitmap.width, tonalBitmap.height,
                           PixelX(tonalBitmap, i), PixelY(tonalBitmap, i))
              THEN finalBitmap'.data[i] = 0
              ELSE IF i % 4 = 3
              THEN finalBitmap'.data[i] = 255
              ELSE LET exact == Clamp100(CrossSum(tonalBitmap, i,
                                                  settings.sharpness - 100))
                       stored == 100 * finalBitmap'.data[i]
                   IN  /\ finalBitmap'.data[i] \in 0..255
                       /\ stored - exact <= 50
                       /\ exact - stored <= 50
      ]_vars

\* the stage has run at sharpness 130 on a 4x4 bitmap with a non-zero
\* border: of the interior pixel (1,1) the red byte was clamped to 255, the
\* blue byte was rounded from a sum that is no integer, and the alpha, 128
\* in the input, is 255; the border byte 0 is 0
SharpenWitness ==
    /\ Sharpened
    /\ settings.sharpness = 130
    /\ tonalBitmap.width = 4
    /\ tonalBitmap.height = 4
    /\ tonalBitmap.data[0] # 0
    /\ finalBitmap.data[0] = 0
    /\ tonalBitmap.data[23] = 128
    /\ finalBitmap.data[23] = 255
    /\ CrossSum(tonalBitmap, 20, 30) > 25500
    /\ finalBitmap.data[20] = 255
    /\ CrossSum(tonalBitmap, 22, 30) % 100 # 0
    /\ CrossSum(tonalBitmap, 22, 30) \in 1..25499

\* every pixel of b has the RGB value v
IsFlat(b, v) == \A i \in Bytes(b) : i % 4 # 3 => b.data[i] = v

\* C15: when the stage has run with sharpness > 100 on a bitmap whose pixels
\* all have the RGB value v, every interior pixel of the result has the RGB
\* value v.
FlatFieldInvariance ==
    (Sharpened /\ tonalBitmap.width >= 1 /\ tonalBitmap.height >= 1
       /\ IsFlat(tonalBitmap, tonalBitmap.data[0])) =>
        \A i \in Bytes(tonalBitmap) :
           (i % 4 # 3 /\ Interior(tonalBitmap.width, tonalBitmap.height,
                                  PixelX(tonalBitmap, i), PixelY(tonalBitmap, i)))
             => finalBitmap.data[i] = tonalBitmap.data[0]

\* the stage has run at sharpness 200 on the 4x4 flat field of value 128
\* and the interior pixel (1,1) is (128, 128, 128)
FlatFieldWitness ==
    /\ Sharpened
    /\ settings.sharpness = 200
    /\ tonalBitmap = FlatBitmap(4, 4, 128)
    /\ finalBitmap.data[20] = 128
    /\ finalBitmap.data[21] = 128
    /\ finalBitmap.data[22] = 128

\* C18: when the stage has run with sharpness > 100 on a bitmap narrower or
\* lower than 3, the final bitmap has the same dimensions and every byte 0.
SmallBitmapIsErased ==
    (Sharpened /\ (tonalBitmap.width < 3 \/ tonalBitmap.height < 3)) =>
        finalBitmap = ImageData(tonalBitmap.width, tonalBitmap.height,
                                [i \in Bytes(tonalBitmap) |-> 0])

\* the stage has run at sharpness 101 on a 2x4 bitmap that had no zero byte
\* in its first pixel, and the result is all zeros
SmallBitmapWitness ==
    /\ Sharpened
    /\ settings.sharpness = 101
    /\ tonalBitmap.width = 2
    /\ tonalBitmap.height = 4
    /\ tonalBitmap.data[0] = 10
    /\ tonalBitmap.data[3] = 255
    /\ \A i \in Bytes(finalBitmap) : finalBitmap.data[i] = 0

====
